---- MODULE Spec2Model ----
(***************************************************************************)
(* Host-side scheduling and flow control of public/main_webworkers.js:     *)
(* the rpc call channel, the worker message router, the frame scheduler,   *)
(* the single-slot frame sink with its render loop, the audio              *)
(* backpressure gate and the FPS counter.                                  *)
(*                                                                         *)
(* The host is one JavaScript event loop: every handler below is one task  *)
(* (with the microtasks it queues) and is one atomic action.  The emulator *)
(* worker (emu_worker.js), the audio worklet (audio_processor.js) and the  *)
(* browser are the environment.                                            *)
(***************************************************************************)
EXTENDS Integers, Sequences, FiniteSets, TLC

\* ---------------------------------------------------------------- constants

MAX_INFLIGHT == 10
THRESHOLD == 8192

\* ------------------------------------------------------------------- bounds

\* Frames the producer delivers in one session.
MaxFrames == 3
\* rpc calls issued in one session: call 1 is onready's echo, the others are
\* load_cartridge calls made from the file loader.
MaxCalls == 3
\* Scheduler ticks counted before the first delivery (the count saturates).
MaxTicks == 12
\* samplesPlayed acknowledgments in flight from the audio worklet.
MaxAcks == 1
\* samplesPlayed acknowledgments the audio worklet posts in one session.
MaxPlays == 1

\* Lengths of the audio batches the producer attaches to a frame.
AudioLens == {300, 500, 7700}
\* Counts the audio worklet acknowledges.
AckCounts == {400}
\* The same, for the specifications that are not about the audio gate.
OneLen == {5000}
OneAck == {5000}

\* ------------------------------------------------------------ JS values

\* A missing field reads as undefined.
Absent == "undefined"
JsFalsy == {"undefined", "null", "false", "zero", "NaN", "emptystring"}
ToBoolean(v) == v \notin JsFalsy

ErrorVals == {Absent, "null", "E1"}
ResultVals == {"R1", "R2"}
Replies == [error : ErrorVals, result : ResultVals]
NoReply == [error |-> "none", result |-> "none"]
\* A reply that succeeds and one that fails, and the same two with another result.
FirstReplies == [error : {Absent, "E1"}, result : {"R1"}]
LaterReplies == [error : {Absent, "E1"}, result : {"R2"}]
\* No message has followed a reply.
NoExtra == [call |-> 0, data |-> NoReply]

Calls == 1..MaxCalls
EchoCall == 1

Min(a, b) == IF a < b THEN a ELSE b
Max(a, b) == IF a > b THEN a ELSE b

RECURSIVE SumSeq(_)
SumSeq(s) == IF s = <<>> THEN 0 ELSE Head(s) + SumSeq(Tail(s))

\* ------------------------------------------------------------------- state

VARIABLES
  \* host globals
  g_pending_frames,
  g_frames_since_last_fps_count,
  g_game_pixels,              \* 0 is null, otherwise the image buffer held
  g_audio_samples_buffered,
  g_nes_audio_node,           \* FALSE is null
  \* host control state
  onready_pc,                 \* where the async function onready is
  promise,                    \* per rpc call: the state of its promise
  timers,                     \* active rAF chains and interval timers
  uncaught,                   \* uncaught exceptions and unhandled rejections
  \* what the page shows
  canvas,                     \* 0 before the first draw, otherwise the image drawn last
  fps_text,
  \* the emulator worker and the channels to and from it
  workerInitSent,
  workerFrameReqs,            \* requestFrame messages the worker has not answered
  workerRpcs,                 \* rpc messages the worker has not answered
  produced,                   \* frames the worker has produced
  hostInbox,                  \* messages posted to worker.onmessage, in order
  port1,                      \* per rpc call: messages posted to its channel.port1
  \* the audio worklet and its port
  sinkUnplayed,               \* samples posted to the worklet and not yet played
  ackQueue,                   \* samplesPlayed messages posted to the node port
  played,                     \* samplesPlayed messages posted so far
  \* history
  dispatched,                 \* requestFrame messages posted
  delivered,                  \* deliverFrame messages handled
  ticks,                      \* scheduler ticks before the first delivery
  lastDelivered,              \* image buffer of the deliverFrame handled last
  shown,                      \* images drawn on the canvas
  draws,                      \* putImageData calls made
  overwritten,                \* images replaced in the sink before being drawn
  replied,                    \* per rpc call: the reply the worker posted
  reported,                   \* sum of the values the FPS counter has shown
  extraReplies                \* the message posted on a call's channel after its reply

hostVars == <<g_pending_frames, g_frames_since_last_fps_count, g_game_pixels,
              g_audio_samples_buffered, g_nes_audio_node, onready_pc, promise,
              timers, uncaught, canvas, fps_text>>
workerVars == <<workerInitSent, workerFrameReqs, workerRpcs, produced, hostInbox, port1>>
sinkVars == <<sinkUnplayed, ackQueue, played>>
histVars == <<dispatched, delivered, ticks, lastDelivered, shown, draws, overwritten,
             replied, reported,
                 extraReplies>>
vars == <<hostVars, workerVars, sinkVars, histVars>>

Init ==
  /\ g_pending_frames = 0
  /\ g_frames_since_last_fps_count = 0
  /\ g_game_pixels = 0
  /\ g_audio_samples_buffered = 0
  /\ g_nes_audio_node = FALSE
  /\ onready_pc = "idle"
  /\ promise = [c \in Calls |-> [state |-> "unissued", value |-> "none"]]
  /\ timers = [raf |-> 0, scheduler |-> 0, fps |-> 0]
  /\ uncaught = {}
  /\ canvas = 0
  /\ fps_text = -1
  /\ workerInitSent = FALSE
  /\ workerFrameReqs = 0
  /\ workerRpcs = {}
  /\ produced = 0
  /\ hostInbox = <<>>
  /\ port1 = [c \in Calls |-> <<>>]
  /\ sinkUnplayed = 0
  /\ ackQueue = <<>>
  /\ played = 0
  /\ dispatched = 0
  /\ delivered = 0
  /\ ticks = 0
  /\ lastDelivered = 0
  /\ shown = {}
  /\ draws = 0
  /\ overwritten = {}
  /\ replied = [c \in Calls |-> NoReply]
  /\ reported = 0
  /\ extraReplies = NoExtra

\* ------------------------------------------------------------ call channel

\* rpc(task, args): a new promise and a private channel, port2 goes to the worker.
rpc(c) ==
  /\ promise' = [promise EXCEPT ![c] = [state |-> "pending", value |-> "none"]]
  /\ workerRpcs' = workerRpcs \cup {c}

\* Mutant of the promise: resolve and reject act on a settled promise too.
SettleAlways(p, state, v) == [state |-> state, value |-> v]

\* The promise of call c after resolve(v) / reject(v): a settled promise ignores both.
Settle(p, state, v) ==
  IF p.state = "pending" THEN [state |-> state, value |-> v] ELSE p

\* Mutant of the handler: any error field, truthy or not, rejects.
PortOnMessagePresence(p, data) ==
  IF data.error # Absent
    THEN Settle(p, "rejected", data.error)
    ELSE Settle(p, "resolved", data.result)

\* channel.port1.onmessage of call c, applied to the message data.
PortOnMessage(p, data) ==
  IF ToBoolean(data.error)
    THEN Settle(p, "rejected", data.error)
    ELSE Settle(p, "resolved", data.result)

\* ---------------------------------------------------- worker message router

InitMsg == [type |-> "init", image_buffer |-> 0, audio_buffer |-> 0]
FrameMsg(img, len) == [type |-> "deliverFrame", image_buffer |-> img, audio_buffer |-> len]

\* Mutant of the start-up: the echo call is issued and not awaited.
onready_startNoAwait ==
  /\ rpc(EchoCall)
  /\ onready_pc' = "await_module"

\* onready() up to its first await: the echo call is issued.
onready_start ==
  /\ rpc(EchoCall)
  /\ onready_pc' = "await_echo"

\* worker.onmessage, e.data.type == "init"
OnInit ==
  /\ hostInbox # <<>>
  /\ Head(hostInbox).type = "init"
  /\ hostInbox' = Tail(hostInbox)
  /\ onready_start
  /\ UNCHANGED <<g_pending_frames, g_frames_since_last_fps_count, g_game_pixels,
                 g_audio_samples_buffered, g_nes_audio_node, timers, uncaught,
                 canvas, fps_text, workerInitSent, workerFrameReqs, produced, port1,
                 sinkVars, histVars>>

\* Mutant of the backpressure test: the threshold is taken twice as high.
GateOpenTwice(buffered, len) == buffered < 2 * THRESHOLD

\* Mutants of the backpressure test: the batch must fit under the threshold,
\* and no test at all.
GateOpenSum(buffered, len) == buffered + len < THRESHOLD
GateOpenAlways(buffered, len) == TRUE

\* The backpressure test of the audio gate.
GateOpen(buffered, len) == buffered < THRESHOLD

\* The audio part of the deliverFrame handler, for a batch of length len.  Reading
\* .port of a null g_nes_audio_node throws, after the statements before it have run.
AudioGate(len) ==
  IF ~g_nes_audio_node
    THEN /\ uncaught' = uncaught \cup {"deliverFrame"}
         /\ UNCHANGED <<g_audio_samples_buffered, sinkUnplayed>>
    ELSE /\ UNCHANGED uncaught
         /\ IF GateOpen(g_audio_samples_buffered, len)
              THEN /\ sinkUnplayed' = sinkUnplayed + len
                   /\ g_audio_samples_buffered' = g_audio_samples_buffered + len
              ELSE UNCHANGED <<g_audio_samples_buffered, sinkUnplayed>>

\* Mutant of the store: a frame not yet drawn is kept and the new one is lost.
StorePixelsIfEmpty(held, image_buffer) == IF held = 0 THEN image_buffer ELSE held

\* g_game_pixels = e.data.image_buffer: the sink after a delivery, whatever it held.
StorePixels(held, image_buffer) == image_buffer

\* Mutant of the handler: the counters move only when the batch is forwarded.
OnDeliverFrameGated ==
  /\ hostInbox # <<>>
  /\ Head(hostInbox).type = "deliverFrame"
  /\ hostInbox' = Tail(hostInbox)
  /\ g_game_pixels' = StorePixels(g_game_pixels, Head(hostInbox).image_buffer)
  /\ IF GateOpen(g_audio_samples_buffered, Head(hostInbox).audio_buffer)
       THEN /\ g_pending_frames' = g_pending_frames - 1
            /\ g_frames_since_last_fps_count' = g_frames_since_last_fps_count + 1
       ELSE UNCHANGED <<g_pending_frames, g_frames_since_last_fps_count>>
  /\ AudioGate(Head(hostInbox).audio_buffer)
  /\ delivered' = delivered + 1
  /\ ticks' = 0
  /\ lastDelivered' = Head(hostInbox).image_buffer
  /\ overwritten' = IF g_game_pixels # 0 THEN overwritten \cup {g_game_pixels}
                                         ELSE overwritten
  /\ UNCHANGED <<g_nes_audio_node, onready_pc, promise, timers, canvas, fps_text,
                 workerInitSent, workerFrameReqs, workerRpcs, produced, port1,
                 ackQueue, played, dispatched, shown, draws, replied, reported,
                 extraReplies>>

\* worker.onmessage, e.data.type == "deliverFrame"
OnDeliverFrame ==
  /\ hostInbox # <<>>
  /\ Head(hostInbox).type = "deliverFrame"
  /\ hostInbox' = Tail(hostInbox)
  /\ g_game_pixels' = StorePixels(g_game_pixels, Head(hostInbox).image_buffer)
  /\ g_pending_frames' = g_pending_frames - 1
  /\ g_frames_since_last_fps_count' = g_frames_since_last_fps_count + 1
  /\ AudioGate(Head(hostInbox).audio_buffer)
  /\ delivered' = delivered + 1
  /\ ticks' = 0
  /\ lastDelivered' = Head(hostInbox).image_buffer
  /\ overwritten' = IF g_game_pixels # 0 THEN overwritten \cup {g_game_pixels}
                                         ELSE overwritten
  /\ UNCHANGED <<g_nes_audio_node, onready_pc, promise, timers, canvas, fps_text,
                 workerInitSent, workerFrameReqs, workerRpcs, produced, port1,
                 ackQueue, played, dispatched, shown, draws, replied, reported,
                 extraReplies>>

\* ------------------------------------------------------- rpc reply handling

\* What the awaiting caller does once the promise of call c has become p.
\* onready continues into init_audio_context() up to its await on addModule;
\* a rejection leaves the async caller rejected with nobody handling it.
Continue(c, p) ==
  IF c = EchoCall
    THEN IF p.state = "resolved"
           THEN onready_pc' = "await_module" /\ UNCHANGED uncaught
           ELSE onready_pc' = "failed" /\ uncaught' = uncaught \cup {"onready"}
    ELSE /\ UNCHANGED onready_pc
         /\ uncaught' = IF p.state = "rejected"
                          THEN uncaught \cup {"load_cartridge"} ELSE uncaught

\* The call that was issued first among those still pending.
OldestPending == CHOOSE c \in Calls : promise[c].state = "pending" /\
                      \A d \in Calls : promise[d].state = "pending" => c <= d

\* Mutant of the reply routing: one handler shared by all calls, which settles
\* the oldest pending call with whatever reply arrives.
PortMessageShared(c) ==
  /\ port1[c] # <<>>
  /\ \E d \in Calls : promise[d].state = "pending"
  /\ port1' = [port1 EXCEPT ![c] = Tail(@)]
  /\ promise' = [promise EXCEPT ![OldestPending] = PortOnMessage(@, Head(port1[c]))]
  /\ Continue(OldestPending, promise'[OldestPending])
  /\ UNCHANGED <<g_pending_frames, g_frames_since_last_fps_count, g_game_pixels,
                 g_audio_samples_buffered, g_nes_audio_node, timers, canvas, fps_text,
                 workerInitSent, workerFrameReqs, workerRpcs, produced, hostInbox,
                 sinkVars, histVars>>

\* A message arrives on channel.port1 of call c.
PortMessage(c) ==
  /\ port1[c] # <<>>
  /\ port1' = [port1 EXCEPT ![c] = Tail(@)]
  /\ promise' = [promise EXCEPT ![c] = PortOnMessage(@, Head(port1[c]))]
  /\ IF promise[c].state = "pending"
       THEN Continue(c, promise'[c])
       ELSE UNCHANGED <<onready_pc, uncaught>>
  /\ UNCHANGED <<g_pending_frames, g_frames_since_last_fps_count, g_game_pixels,
                 g_audio_samples_buffered, g_nes_audio_node, timers, canvas, fps_text,
                 workerInitSent, workerFrameReqs, workerRpcs, produced, hostInbox,
                 sinkVars, histVars>>

\* ------------------------------------------------------------ audio set-up

\* Mutant of the audio set-up: the node is created but never stored in the global.
AddModuleDoneNoNode ==
  /\ onready_pc = "await_module"
  /\ g_nes_audio_node' = g_nes_audio_node
  /\ timers' = [raf |-> timers.raf + 1,
                scheduler |-> timers.scheduler + 1,
                fps |-> timers.fps + 1]
  /\ onready_pc' = "running"
  /\ UNCHANGED <<g_pending_frames, g_frames_since_last_fps_count, g_game_pixels,
                 g_audio_samples_buffered, promise, uncaught, canvas, fps_text,
                 workerVars, sinkVars, histVars>>

\* audioWorklet.addModule resolves: init_audio_context() finishes and onready()
\* runs to its end, starting the render loop and the two interval timers.
AddModuleDone ==
  /\ onready_pc = "await_module"
  /\ g_nes_audio_node' = TRUE
  /\ timers' = [raf |-> timers.raf + 1,
                scheduler |-> timers.scheduler + 1,
                fps |-> timers.fps + 1]
  /\ onready_pc' = "running"
  /\ UNCHANGED <<g_pending_frames, g_frames_since_last_fps_count, g_game_pixels,
                 g_audio_samples_buffered, promise, uncaught, canvas, fps_text,
                 workerVars, sinkVars, histVars>>

\* Mutant of the acknowledgment: the counter is cleared instead of decreased.
AfterPlayedClears(buffered, count) == 0

\* The counter after a samplesPlayed acknowledgment of count.
AfterPlayed(buffered, count) == buffered - count

\* g_nes_audio_node.port.onmessage
handle_audio_message ==
  /\ ackQueue # <<>>
  /\ ackQueue' = Tail(ackQueue)
  /\ g_audio_samples_buffered' = AfterPlayed(g_audio_samples_buffered, Head(ackQueue))
  /\ UNCHANGED <<g_pending_frames, g_frames_since_last_fps_count, g_game_pixels,
                 g_nes_audio_node, onready_pc, promise, timers, uncaught, canvas,
                 fps_text, workerVars, sinkUnplayed, played, histVars>>

\* --------------------------------------------------------- cartridge loading

\* The next call the file loader makes.
NextCall == CHOOSE c \in Calls : promise[c].state = "unissued" /\
                 \A d \in Calls : promise[d].state = "unissued" => c <= d

\* reader.onload of load_cartridge_by_file: load_cartridge(cart_data) issues its rpc.
load_cartridge ==
  /\ onready_pc = "running"
  /\ \E c \in Calls : promise[c].state = "unissued"
  /\ rpc(NextCall)
  /\ UNCHANGED <<g_pending_frames, g_frames_since_last_fps_count, g_game_pixels,
                 g_audio_samples_buffered, g_nes_audio_node, onready_pc, timers,
                 uncaught, canvas, fps_text, workerInitSent, workerFrameReqs,
                 produced, hostInbox, port1, sinkVars, histVars>>

\* ----------------------------------------------------------- frame scheduler

\* Mutants of the admission test: an off-by-one cap, and no cap at all.
CanScheduleOffByOne(pending) == pending <= MAX_INFLIGHT
CanScheduleAlways(pending) == TRUE

\* The admission test of the scheduler.
CanSchedule(pending) == pending < MAX_INFLIGHT

\* Mutant of the scheduler: at the cap it gives the outstanding requests up and
\* starts counting again.
schedule_frames_with_recovery ==
  /\ timers.scheduler > 0
  /\ IF CanSchedule(g_pending_frames)
       THEN /\ workerFrameReqs' = workerFrameReqs + 1
            /\ g_pending_frames' = g_pending_frames + 1
            /\ dispatched' = dispatched + 1
       ELSE /\ g_pending_frames' = 0
            /\ UNCHANGED <<workerFrameReqs, dispatched>>
  /\ ticks' = IF delivered = 0 /\ ticks < MaxTicks THEN ticks + 1 ELSE ticks
  /\ UNCHANGED <<g_frames_since_last_fps_count, g_game_pixels,
                 g_audio_samples_buffered, g_nes_audio_node, onready_pc, promise,
                 timers, uncaught, canvas, fps_text, workerInitSent, workerRpcs,
                 produced, hostInbox, port1, sinkVars, delivered, lastDelivered,
                 shown, draws, overwritten, replied, reported,
                 extraReplies>>

\* Mutant of the scheduler: no request while a frame waits in the sink.
schedule_frames_after_render ==
  /\ timers.scheduler > 0
  /\ IF CanSchedule(g_pending_frames) /\ g_game_pixels = 0
       THEN /\ workerFrameReqs' = workerFrameReqs + 1
            /\ g_pending_frames' = g_pending_frames + 1
            /\ dispatched' = dispatched + 1
       ELSE UNCHANGED <<workerFrameReqs, g_pending_frames, dispatched>>
  /\ ticks' = IF delivered = 0 /\ ticks < MaxTicks THEN ticks + 1 ELSE ticks
  /\ UNCHANGED <<g_frames_since_last_fps_count, g_game_pixels,
                 g_audio_samples_buffered, g_nes_audio_node, onready_pc, promise,
                 timers, uncaught, canvas, fps_text, workerInitSent, workerRpcs,
                 produced, hostInbox, port1, sinkVars, delivered, lastDelivered,
                 shown, draws, overwritten, replied, reported,
                 extraReplies>>

\* One firing of the 1 ms interval timer.
schedule_frames_at_top_speed ==
  /\ timers.scheduler > 0
  /\ IF CanSchedule(g_pending_frames)
       THEN /\ workerFrameReqs' = workerFrameReqs + 1
            /\ g_pending_frames' = g_pending_frames + 1
            /\ dispatched' = dispatched + 1
       ELSE UNCHANGED <<workerFrameReqs, g_pending_frames, dispatched>>
  /\ ticks' = IF delivered = 0 /\ ticks < MaxTicks THEN ticks + 1 ELSE ticks
  /\ UNCHANGED <<g_frames_since_last_fps_count, g_game_pixels,
                 g_audio_samples_buffered, g_nes_audio_node, onready_pc, promise,
                 timers, uncaught, canvas, fps_text, workerInitSent, workerRpcs,
                 produced, hostInbox, port1, sinkVars, delivered, lastDelivered,
                 shown, draws, overwritten, replied, reported,
                 extraReplies>>

\* ----------------------------------------------------------------- rendering

\* Mutant of the render loop: the sink is not cleared after the draw.
renderLoopKeepsFrame ==
  /\ timers.raf > 0
  /\ IF g_game_pixels # 0
       THEN /\ canvas' = g_game_pixels
            /\ shown' = shown \cup {g_game_pixels}
            /\ draws' = draws + 1
            /\ UNCHANGED g_game_pixels
       ELSE UNCHANGED <<canvas, shown, draws, g_game_pixels>>
  /\ timers' = [timers EXCEPT !.raf = (@ - 1) + 1]
  /\ UNCHANGED <<g_pending_frames, g_frames_since_last_fps_count,
                 g_audio_samples_buffered, g_nes_audio_node, onready_pc, promise,
                 uncaught, fps_text, workerVars, sinkVars, dispatched, delivered,
                 ticks, lastDelivered, overwritten, replied, reported,
                 extraReplies>>

\* Mutant of the render loop: the next callback is requested only after a draw.
renderLoopStopsWhenEmpty ==
  /\ timers.raf > 0
  /\ IF g_game_pixels # 0
       THEN /\ canvas' = g_game_pixels
            /\ shown' = shown \cup {g_game_pixels}
            /\ draws' = draws + 1
            /\ g_game_pixels' = 0
       ELSE UNCHANGED <<canvas, shown, draws, g_game_pixels>>
  /\ timers' = [timers EXCEPT !.raf = IF g_game_pixels # 0 THEN (@ - 1) + 1 ELSE @ - 1]
  /\ UNCHANGED <<g_pending_frames, g_frames_since_last_fps_count,
                 g_audio_samples_buffered, g_nes_audio_node, onready_pc, promise,
                 uncaught, fps_text, workerVars, sinkVars, dispatched, delivered,
                 ticks, lastDelivered, overwritten, replied, reported,
                 extraReplies>>

\* Mutant of the render loop: a draw requests a callback of its own as well.
renderLoopRequestsTwice ==
  /\ timers.raf > 0
  /\ IF g_game_pixels # 0
       THEN /\ canvas' = g_game_pixels
            /\ shown' = shown \cup {g_game_pixels}
            /\ draws' = draws + 1
            /\ g_game_pixels' = 0
       ELSE UNCHANGED <<canvas, shown, draws, g_game_pixels>>
  /\ timers' = [timers EXCEPT !.raf = IF g_game_pixels # 0 THEN (@ - 1) + 2 ELSE (@ - 1) + 1]
  /\ UNCHANGED <<g_pending_frames, g_frames_since_last_fps_count,
                 g_audio_samples_buffered, g_nes_audio_node, onready_pc, promise,
                 uncaught, fps_text, workerVars, sinkVars, dispatched, delivered,
                 ticks, lastDelivered, overwritten, replied, reported,
                 extraReplies>>

\* Mutant of the render loop: the credit is returned when a frame is drawn.
renderLoopReturnsCredit ==
  /\ timers.raf > 0
  /\ IF g_game_pixels # 0
       THEN /\ canvas' = g_game_pixels
            /\ shown' = shown \cup {g_game_pixels}
            /\ draws' = draws + 1
            /\ g_game_pixels' = 0
            /\ g_pending_frames' = g_pending_frames - 1
       ELSE UNCHANGED <<canvas, shown, draws, g_game_pixels, g_pending_frames>>
  /\ timers' = [timers EXCEPT !.raf = (@ - 1) + 1]
  /\ UNCHANGED <<g_frames_since_last_fps_count,
                 g_audio_samples_buffered, g_nes_audio_node, onready_pc, promise,
                 uncaught, fps_text, workerVars, sinkVars, dispatched, delivered,
                 ticks, lastDelivered, overwritten, replied, reported,
                 extraReplies>>

\* One animation frame callback; it requests the next one before it returns.
renderLoop ==
  /\ timers.raf > 0
  /\ IF g_game_pixels # 0
       THEN /\ canvas' = g_game_pixels
            /\ shown' = shown \cup {g_game_pixels}
            /\ draws' = draws + 1
            /\ g_game_pixels' = 0
       ELSE UNCHANGED <<canvas, shown, draws, g_game_pixels>>
  /\ timers' = [timers EXCEPT !.raf = (@ - 1) + 1]
  /\ UNCHANGED <<g_pending_frames, g_frames_since_last_fps_count,
                 g_audio_samples_buffered, g_nes_audio_node, onready_pc, promise,
                 uncaught, fps_text, workerVars, sinkVars, dispatched, delivered,
                 ticks, lastDelivered, overwritten, replied, reported,
                 extraReplies>>

\* Mutant of the report: the accumulator is shown and not reset.
compute_fpsKeepsCount ==
  /\ timers.fps > 0
  /\ fps_text' = g_frames_since_last_fps_count
  /\ reported' = reported + g_frames_since_last_fps_count
  /\ UNCHANGED <<g_pending_frames, g_frames_since_last_fps_count, g_game_pixels,
                 g_audio_samples_buffered, g_nes_audio_node, onready_pc, promise,
                 timers, uncaught, canvas, workerVars, sinkVars, dispatched,
                 delivered, ticks, lastDelivered, shown, draws, overwritten, replied,
                 extraReplies>>

\* One firing of the 1000 ms interval timer.
compute_fps ==
  /\ timers.fps > 0
  /\ fps_text' = g_frames_since_last_fps_count
  /\ g_frames_since_last_fps_count' = 0
  /\ reported' = reported + g_frames_since_last_fps_count
  /\ UNCHANGED <<g_pending_frames, g_game_pixels, g_audio_samples_buffered,
                 g_nes_audio_node, onready_pc, promise, timers, uncaught, canvas,
                 workerVars, sinkVars, dispatched, delivered, ticks, lastDelivered,
                 shown, draws, overwritten, replied, extraReplies>>

\* ------------------------------------------------------------- environment

\* The worker announces that it is ready, once.
WorkerInit ==
  /\ ~workerInitSent
  /\ workerInitSent' = TRUE
  /\ hostInbox' = Append(hostInbox, InitMsg)
  /\ UNCHANGED <<hostVars, workerFrameReqs, workerRpcs, produced, port1, sinkVars,
                 histVars>>

\* The worker answers one requestFrame with one deliverFrame (at most n in all).
WorkerProduceFrame(n, len) ==
  /\ workerFrameReqs > 0
  /\ produced < n
  /\ workerFrameReqs' = workerFrameReqs - 1
  /\ produced' = produced + 1
  /\ hostInbox' = Append(hostInbox, FrameMsg(produced + 1, len))
  /\ UNCHANGED <<hostVars, workerInitSent, workerRpcs, port1, sinkVars, histVars>>

\* The worker answers rpc call c, once, on the port it was given.
WorkerReply(c, data) ==
  /\ c \in workerRpcs
  /\ workerRpcs' = workerRpcs \ {c}
  /\ port1' = [port1 EXCEPT ![c] = Append(@, data)]
  /\ replied' = [replied EXCEPT ![c] = data]
  /\ UNCHANGED <<hostVars, workerInitSent, workerFrameReqs, produced, hostInbox,
                 sinkVars, dispatched, delivered, ticks, lastDelivered, shown, draws,
                 overwritten, reported, extraReplies>>

\* The producer posts one more message on the channel of a call it has answered;
\* it does so once in a session.
WorkerReplyAgain(c, data) ==
  /\ replied[c] # NoReply
  /\ extraReplies = NoExtra
  /\ port1' = [port1 EXCEPT ![c] = Append(@, data)]
  /\ extraReplies' = [call |-> c, data |-> data]
  /\ UNCHANGED <<hostVars, workerInitSent, workerFrameReqs, workerRpcs, produced,
                 hostInbox, sinkVars, dispatched, delivered, ticks, lastDelivered,
                 shown, draws, overwritten, replied, reported>>

\* The audio worklet plays count of the samples it holds and reports it.
SinkPlay(count) ==
  /\ count <= sinkUnplayed
  /\ Len(ackQueue) < MaxAcks
  /\ played < MaxPlays
  /\ played' = played + 1
  /\ sinkUnplayed' = sinkUnplayed - count
  /\ ackQueue' = Append(ackQueue, count)
  /\ UNCHANGED <<hostVars, workerVars, histVars>>

\* ----------------------------------------------------------- specifications

\* The handlers of the start-up sequence and of the call channel.
StartupNext ==
  \/ OnInit
  \/ \E c \in Calls : PortMessage(c)
  \/ AddModuleDone

\* The timer and animation frame callbacks.
TimerNext ==
  \/ schedule_frames_at_top_speed
  \/ renderLoop
  \/ compute_fps

\* The handlers of what the producer and the audio worklet post.
DeliveryNext ==
  \/ OnDeliverFrame
  \/ handle_audio_message

\* The session with the emulator running; the file loader is not used.
Next ==
  \/ StartupNext
  \/ TimerNext
  \/ DeliveryNext
  \/ WorkerInit
  \/ \E len \in OneLen : WorkerProduceFrame(MaxFrames, len)
  \/ \E data \in Replies : WorkerReply(EchoCall, data)
  \/ \E count \in OneAck : SinkPlay(count)

Spec == Init /\ [][Next]_vars

\* The same session with audio batches and acknowledgments of several sizes.
NextAudio ==
  \/ StartupNext
  \/ TimerNext
  \/ DeliveryNext
  \/ WorkerInit
  \/ \E len \in AudioLens : WorkerProduceFrame(MaxFrames, len)
  \/ \E data \in Replies : WorkerReply(EchoCall, data)
  \/ \E count \in AckCounts : SinkPlay(count)

SpecAudio == Init /\ [][NextAudio]_vars

\* A session in which the file loader is used and the producer answers the rpc
\* calls but no requestFrame: no deliverFrame and no samplesPlayed message is
\* ever posted, so the handlers of DeliveryNext are never enabled.
NextRpc ==
  \/ StartupNext
  \/ TimerNext
  \/ load_cartridge
  \/ WorkerInit
  \/ \E c \in Calls, data \in Replies : WorkerReply(c, data)

SpecRpc == Init /\ [][NextRpc]_vars

\* The same session with a producer that answers with a success or a failure
\* and posts a second message on the channel of one call.
NextRpcExtra ==
  \/ StartupNext
  \/ TimerNext
  \/ load_cartridge
  \/ WorkerInit
  \/ \E c \in Calls, data \in FirstReplies : WorkerReply(c, data)
  \/ \E c \in Calls, data \in LaterReplies : WorkerReplyAgain(c, data)

SpecRpcExtra == Init /\ [][NextRpcExtra]_vars

\* The session of Spec with the browser running every animation frame callback
\* that is requested.
SpecRenderFair == Spec /\ WF_vars(renderLoop)

\* The session of Spec with the scheduler timer firing, the producer answering
\* the requests it has (up to MaxFrames) and the host handling what is posted to
\* it; nothing is assumed about the render loop.
SpecSchedulerFair ==
  /\ Spec
  /\ WF_vars(schedule_frames_at_top_speed)
  /\ WF_vars(\E len \in OneLen : WorkerProduceFrame(MaxFrames, len))
  /\ WF_vars(OnDeliverFrame)

\* ------------------------------------------------------------------- claims

\* C1: in every reachable state the in-flight counter g_pending_frames is at
\* least 0 and at most MAX_INFLIGHT (10), whatever the interleaving of scheduler
\* ticks and deliverFrame messages.
PendingFramesInRange ==
  /\ 0 <= g_pending_frames
  /\ g_pending_frames <= MAX_INFLIGHT

\* The counter is at the cap after every frame the producer delivers was handled.
PendingAtCapAfterDeliveries ==
  /\ g_pending_frames = MAX_INFLIGHT
  /\ delivered = MaxFrames

\* A tick posts one requestFrame and adds 1 to the counter below the cap, and
\* does nothing at the cap.
TickStep ==
  schedule_frames_at_top_speed =>
    IF g_pending_frames < MAX_INFLIGHT
      THEN /\ workerFrameReqs' = workerFrameReqs + 1
           /\ dispatched' = dispatched + 1
           /\ g_pending_frames' = g_pending_frames + 1
      ELSE UNCHANGED <<workerFrameReqs, dispatched, g_pending_frames>>

\* After N ticks and no delivery, min(N, 10) requests were posted and are pending.
TicksWithoutDelivery ==
  delivered = 0 =>
    /\ dispatched = Min(ticks, MAX_INFLIGHT)
    /\ g_pending_frames = Min(ticks, MAX_INFLIGHT)

\* C2: each scheduler tick posts exactly one requestFrame and increments
\* g_pending_frames by 1 if g_pending_frames < 10, and otherwise posts nothing
\* and leaves it unchanged; so N ticks from 0 with no delivery in between post
\* min(N, 10) requests and leave g_pending_frames = min(N, 10).
TickContract == []TicksWithoutDelivery /\ [][TickStep]_vars

\* Twelve ticks and no delivery: ten requests, ticks 11 and 12 posted nothing.
TwelveTicksTenRequests ==
  /\ ticks = 12
  /\ delivered = 0
  /\ dispatched = 10
  /\ g_pending_frames = 10
  /\ workerFrameReqs + produced = 10

Settled(c) == promise[c].state \in {"resolved", "rejected"}

\* A settled call was answered on its own channel and carries a field of that
\* reply; a call not answered yet is not settled.
SettledByOwnReply ==
  \A c \in Calls :
    /\ Settled(c) => /\ replied[c] # NoReply
                     /\ promise[c].value \in {replied[c].error, replied[c].result}
    /\ replied[c] = NoReply => ~Settled(c)

\* A step that takes a message off the channel of call c changes no other call.
ReplyStep ==
  \A c \in Calls :
    Len(port1'[c]) < Len(port1[c]) =>
      \A d \in Calls \ {c} : promise'[d] = promise[d]

\* C3: whatever calls are outstanding together and in whatever order their
\* replies arrive, each call is settled with the payload of the reply posted on
\* its own channel and with no other call's payload; a reply for one call
\* settles only that call and leaves the other outstanding calls pending.
RepliesRoutedPerCall == []SettledByOwnReply /\ [][ReplyStep]_vars

\* Calls 2 and 3 were outstanding together, the later call 3 was answered first
\* and is settled, and call 2 is still pending with a different reply on its way.
LaterCallSettledFirst ==
  /\ MaxCalls >= 3
  /\ promise[2].state = "pending"
  /\ port1[2] # <<>>
  /\ promise[3].state = "resolved"
  /\ replied[2].result # replied[3].result

\* C4 as stated: a reply that carries an error field, whatever its value, fails
\* the call with that value, and any other reply succeeds it with its result.
ErrorFieldAlwaysRejects ==
  \A c \in Calls :
    Settled(c) =>
      IF replied[c].error # Absent
        THEN promise[c] = [state |-> "rejected", value |-> replied[c].error]
        ELSE promise[c] = [state |-> "resolved", value |-> replied[c].result]

\* C4, amended: a reply whose error field is present and truthy fails the call
\* with that error value; every other reply (no error field, or a falsy one such
\* as null) succeeds the call with its result field.  A reply with a truthy error
\* never succeeds the call.
TruthyErrorRejects ==
  \A c \in Calls :
    Settled(c) =>
      IF replied[c].error \in ErrorVals \ JsFalsy
        THEN promise[c] = [state |-> "rejected", value |-> replied[c].error]
        ELSE promise[c] = [state |-> "resolved", value |-> replied[c].result]

\* One call failed with its reply's error and one succeeded on a reply that
\* carries a null error.
RejectedAndNullErrorResolved ==
  /\ \E c \in Calls : promise[c] = [state |-> "rejected", value |-> "E1"]
  /\ \E c \in Calls : /\ promise[c].state = "resolved"
                      /\ replied[c].error = "null"

\* The sink holds nothing or the image delivered last, and no image that was
\* replaced in the sink was ever drawn.
SinkHoldsLatest ==
  /\ g_game_pixels \in {0, lastDelivered}
  /\ shown \cap overwritten = {}

\* Every draw presents the image delivered last, never a replaced one.
DrawStep ==
  draws' # draws => /\ canvas' = lastDelivered
                    /\ canvas' \notin overwritten

\* C5: the frame sink holds at most one undisplayed frame: a frame delivered
\* while the previous one is still in the sink replaces it, the replaced frame
\* is never presented by a later render, and a render always presents the most
\* recently delivered frame.
LatestFrameWins == []SinkHoldsLatest /\ [][DrawStep]_vars

\* A frame was replaced in the sink and a later frame was drawn afterwards.
FrameLostThenLaterDrawn ==
  \E n \in overwritten : \E m \in shown : n < m /\ canvas = m

\* A render draws the held image and empties the sink, or finds the sink empty
\* and changes nothing.
RenderStep ==
  renderLoop =>
    IF g_game_pixels # 0
      THEN /\ canvas' = g_game_pixels
           /\ draws' = draws + 1
           /\ g_game_pixels' = 0
      ELSE UNCHANGED vars

\* Every draw presented an image that no earlier draw had presented.
DrawnOnce ==
  /\ draws = Cardinality(shown)
  /\ draws <= delivered

\* C10: a render presents the frame in the sink and then empties the sink, and
\* with an empty sink presents nothing and changes no state; so every delivered
\* frame is presented at most once and a render with no delivery since the
\* previous one draws nothing.
RenderTakesOrNothing == []DrawnOnce /\ [][RenderStep]_vars

\* Two frames were drawn, one draw each, and the sink is empty again.
TwoFramesDrawnSinkEmpty ==
  /\ draws = 2
  /\ Cardinality(shown) = 2
  /\ g_game_pixels = 0
  /\ delivered = 2

\* The audio batch of the deliverFrame message that is handled next.
BatchLen == Head(hostInbox).audio_buffer

\* C6 as stated: a batch that would take the counter to THRESHOLD or above is
\* dropped and the counter is unchanged; any other batch is forwarded and the
\* counter grows by its length.
SumGateStep ==
  OnDeliverFrame =>
    IF g_audio_samples_buffered + BatchLen >= THRESHOLD
      THEN UNCHANGED <<g_audio_samples_buffered, sinkUnplayed>>
      ELSE /\ g_audio_samples_buffered' = g_audio_samples_buffered + BatchLen
           /\ sinkUnplayed' = sinkUnplayed + BatchLen

BatchThatWouldOverrunIsDropped == [][SumGateStep]_vars

\* The gate looks at the counter alone.
CounterGateStep ==
  OnDeliverFrame =>
    IF g_audio_samples_buffered >= THRESHOLD
      THEN UNCHANGED <<g_audio_samples_buffered, sinkUnplayed>>
      ELSE /\ g_audio_samples_buffered' = g_audio_samples_buffered + BatchLen
           /\ sinkUnplayed' = sinkUnplayed + BatchLen

\* C6, amended: on delivery of a batch of length L, if samplesBuffered >=
\* THRESHOLD (8192) at delivery time the batch is dropped and samplesBuffered is
\* unchanged; otherwise the batch is forwarded and samplesBuffered grows by
\* exactly L, also when that takes it to THRESHOLD or above.  With
\* samplesBuffered = 8000 a batch of length 300 is forwarded and samplesBuffered
\* becomes 8300.
BatchDroppedOnlyAtThreshold == [][CounterGateStep]_vars

\* 7700 + 300 = 8000 samples were buffered and a batch of 300 was forwarded.
Batch300ForwardedAt8000 ==
  /\ delivered = 3
  /\ g_audio_samples_buffered = 8300
  /\ sinkUnplayed = 8300

\* A batch is forwarded whole exactly when the counter is below the threshold,
\* whatever the batch length, and is otherwise dropped whole.
WholeBatchStep ==
  OnDeliverFrame =>
    /\ (g_audio_samples_buffered < THRESHOLD) <=>
         (sinkUnplayed' - sinkUnplayed = BatchLen)
    /\ (g_audio_samples_buffered < THRESHOLD) <=>
         (g_audio_samples_buffered' - g_audio_samples_buffered = BatchLen)
    /\ ~(g_audio_samples_buffered < THRESHOLD) <=>
         (sinkUnplayed' = sinkUnplayed /\ UNCHANGED g_audio_samples_buffered)

\* No step other than the handling of a deliverFrame message passes samples to
\* the audio worklet: a dropped batch is not sent later.
NoLateForwardStep ==
  sinkUnplayed' > sinkUnplayed => OnDeliverFrame

\* Every sample counted was posted to the worklet: none is held back in the host.
NothingQueued ==
  g_audio_samples_buffered = sinkUnplayed + SumSeq(ackQueue)

\* C7: a batch of length L is forwarded whole and samplesBuffered grows by
\* exactly L if and only if samplesBuffered < 8192 before the delivery,
\* independently of L; otherwise the whole batch is dropped, no sample reaches
\* the sink, samplesBuffered is unchanged, and the batch is never queued or
\* retried on a later delivery or acknowledgment.
BatchForwardedIffBelowThreshold ==
  []NothingQueued /\ [][WholeBatchStep /\ NoLateForwardStep]_vars

\* Two batches (7700, 500) were forwarded and the third delivery was dropped.
ThirdBatchDropped ==
  /\ delivered = 3
  /\ played = 0
  /\ g_audio_samples_buffered = 8200
  /\ sinkUnplayed = 8200

\* An acknowledgment of count C takes exactly C off the counter, which is the
\* counter floored at 0.
PlayedStep ==
  handle_audio_message =>
    /\ g_audio_samples_buffered' = g_audio_samples_buffered - Head(ackQueue)
    /\ g_audio_samples_buffered' = Max(0, g_audio_samples_buffered - Head(ackQueue))

DeliverStep ==
  OnDeliverFrame =>
    /\ g_game_pixels' = Head(hostInbox).image_buffer
    /\ g_pending_frames' = g_pending_frames - 1
    /\ g_frames_since_last_fps_count' = g_frames_since_last_fps_count + 1
    /\ \/ /\ g_audio_samples_buffered' = g_audio_samples_buffered + BatchLen
          /\ sinkUnplayed' = sinkUnplayed + BatchLen
       \/ UNCHANGED <<g_audio_samples_buffered, sinkUnplayed>>

\* C9: handling one deliverFrame message stores its pixel buffer into the sink,
\* decrements g_pending_frames by exactly 1, increments the FPS accumulator by
\* exactly 1 and passes the audio batch to the gate; the first three effects
\* are the same whether the gate forwards or drops the batch.
DeliverEffects == [][DeliverStep]_vars

\* Three frames handled with no FPS report in between, the third batch dropped.
ThreeCountedThirdDropped ==
  /\ delivered = 3
  /\ g_frames_since_last_fps_count = 3
  /\ g_game_pixels = 3
  /\ played = 0
  /\ g_audio_samples_buffered = 10000

\* A report shows the accumulator and resets it.
ReportStep ==
  compute_fps =>
    /\ fps_text' = g_frames_since_last_fps_count
    /\ g_frames_since_last_fps_count' = 0

\* The frames handled so far are those already reported plus those accumulated.
EveryDeliveryCountedOnce ==
  /\ reported + g_frames_since_last_fps_count = delivered
  /\ fps_text <= delivered

\* C11: each FPS report reads the accumulator, shows that value and resets the
\* accumulator to 0, so the value shown is the number of deliverFrame messages
\* handled since the previous report, and the sum of all values shown plus the
\* accumulator is the number of deliverFrame messages handled since start-up.
FpsCountsEveryDelivery == []EveryDeliveryCountedOnce /\ [][ReportStep]_vars

\* A report of 2 was followed by one more delivery: 2 reported, 1 accumulated.
TwoReportedOneAccumulated ==
  /\ fps_text = 2
  /\ reported = 2
  /\ g_frames_since_last_fps_count = 1
  /\ delivered = 3

\* deliverFrame messages posted to the host and not handled yet.
RECURSIVE FramesIn(_)
FramesIn(q) ==
  IF q = <<>> THEN 0
  ELSE (IF Head(q).type = "deliverFrame" THEN 1 ELSE 0) + FramesIn(Tail(q))

\* The counter is the requests the producer has not answered plus the answers
\* not handled yet: an unanswered request keeps its credit.
CreditHeldByUnanswered ==
  /\ g_pending_frames = workerFrameReqs + FramesIn(hostInbox)
  /\ g_pending_frames >= workerFrameReqs

\* Credit comes back only one at a time, by handling a deliverFrame message, and
\* with 10 requests unanswered no step posts another request.
CreditStep ==
  /\ g_pending_frames' < g_pending_frames =>
       /\ hostInbox # <<>>
       /\ Head(hostInbox).type = "deliverFrame"
       /\ hostInbox' = Tail(hostInbox)
       /\ g_pending_frames' = g_pending_frames - 1
  /\ workerFrameReqs = MAX_INFLIGHT =>
       /\ dispatched' = dispatched
       /\ workerFrameReqs' <= workerFrameReqs

\* C12: a frame request the producer never answers consumes its credit for
\* good: with k requests unanswered g_pending_frames stays >= k, and once 10
\* requests are unanswered no later tick posts a requestFrame; there is no
\* timeout, cancellation or recovery step that returns the credit.
UnansweredRequestsKeepCredit == []CreditHeldByUnanswered /\ [][CreditStep]_vars

\* The producer has delivered all it will and 10 requests stay unanswered.
TenRequestsUnanswered ==
  /\ produced = MaxFrames
  /\ delivered = MaxFrames
  /\ workerFrameReqs = MAX_INFLIGHT
  /\ g_pending_frames = MAX_INFLIGHT
  /\ dispatched = MAX_INFLIGHT + MaxFrames

\* Once onready has run to its end there is a pending animation frame callback.
RenderChainAlive ==
  onready_pc = "running" => timers.raf >= 1

\* No step, a render with or without a frame included, ends the chain.
RenderChainStep ==
  /\ timers'.raf >= timers.raf
  /\ renderLoop => timers'.raf = timers.raf

\* C13: once started the render loop requests its next callback at the end of
\* every invocation, whether or not the sink held a frame, so that no reachable
\* state ends the loop and, with the callbacks scheduled fairly, a render
\* happens again and again: a frame in the sink is always eventually taken.
RenderLoopNeverEnds ==
  /\ []RenderChainAlive
  /\ [][RenderChainStep]_vars
  /\ (g_game_pixels # 0) ~> (g_game_pixels = 0)

\* Every frame was delivered, the last one drawn, and the callback is still pending.
RenderPendingAfterLastFrame ==
  /\ delivered = MaxFrames
  /\ canvas = MaxFrames
  /\ g_game_pixels = 0
  /\ timers.raf = 1

\* The requests posted when the producer has delivered all its frames and the
\* credit they returned has been used again.
AllDispatched == MAX_INFLIGHT + MaxFrames

\* A running scheduler with credit left posts a request: the number of requests
\* posted, which moves by one, changes parity.
CreditLeadsToDispatch ==
  \A par \in {0, 1} :
    (timers.scheduler > 0 /\ g_pending_frames < MAX_INFLIGHT /\ dispatched % 2 = par)
      ~> (dispatched % 2 # par)

\* A tick with credit left posts a request, whatever the sink holds.
AdmissionStep ==
  (schedule_frames_at_top_speed /\ g_pending_frames < MAX_INFLIGHT)
    => dispatched' = dispatched + 1

StartedAtMostOnce ==
  /\ timers.raf <= 1
  /\ timers.scheduler <= 1
  /\ timers.fps <= 1
  /\ timers.scheduler = timers.raf /\ timers.fps = timers.raf
  /\ onready_pc = "running" <=> timers.raf = 1

\* Once the start-up sequence has run to its end no message runs it again.
StartupStep ==
  onready_pc = "running" => (onready_pc' = "running" /\ timers' = timers)

\* C15: the start-up sequence triggered by an init message (audio bring-up,
\* scheduler timer, render loop, FPS timer) runs at most once per session: after
\* any sequence of inbound messages there is at most one scheduler timer, one
\* render-loop chain and one FPS timer.
StartupRunsOnce == []StartedAtMostOnce /\ [][StartupStep]_vars

\* init, the echo reply, every frame and an acknowledgment have come in, and
\* there is one timer of each kind.
OneOfEachAfterAllMessages ==
  /\ timers = [raf |-> 1, scheduler |-> 1, fps |-> 1]
  /\ delivered = MaxFrames
  /\ played = 1
  /\ hostInbox = <<>>
  /\ ackQueue = <<>>

\* No handler has thrown; what is unhandled is the rejection of a caller whose
\* rpc failed; a deliverFrame waiting in the inbox will find the audio node.
NoHandlerThrew ==
  /\ "deliverFrame" \notin uncaught
  /\ uncaught \subseteq {"onready", "load_cartridge"}
  /\ "onready" \in uncaught =>
       (promise[EchoCall].state = "rejected" /\ onready_pc = "failed")
  /\ (hostInbox # <<>> /\ Head(hostInbox).type = "deliverFrame") => g_nes_audio_node

\* A failure is recorded only by the step that rejects a call, for its caller.
FailureStep ==
  uncaught' # uncaught =>
    \E c \in Calls : promise[c].state = "pending" /\ promise'[c].state = "rejected"

PendingIsDispatchedMinusDelivered == g_pending_frames = dispatched - delivered

\* The counter goes up by one exactly when the scheduler dispatches a request and
\* down by one exactly when a deliverFrame is handled; every other step keeps it.
PendingStep ==
  /\ g_pending_frames' > g_pending_frames <=> dispatched' = dispatched + 1
  /\ g_pending_frames' < g_pending_frames <=> delivered' = delivered + 1
  /\ g_pending_frames' > g_pending_frames =>
       (g_pending_frames' = g_pending_frames + 1 /\
        workerFrameReqs' = workerFrameReqs + 1 /\ delivered' = delivered)
  /\ g_pending_frames' < g_pending_frames =>
       (g_pending_frames' = g_pending_frames - 1 /\
        hostInbox' = Tail(hostInbox) /\ dispatched' = dispatched)
  /\ (dispatched' = dispatched /\ delivered' = delivered) =>
       g_pending_frames' = g_pending_frames

\* C17: pendingFrames equals the number of requestFrame messages dispatched
\* minus the number of deliverFrame messages handled; only the scheduler
\* increments it and only deliverFrame handling decrements it (rpc calls and
\* replies, renders, FPS reports and acknowledgments leave it unchanged).
PendingCountsOutstanding ==
  []PendingIsDispatchedMinusDelivered /\ [][PendingStep]_vars

\* Thirteen dispatched, three delivered, ten pending, after a draw, a report and
\* an acknowledgment.
ThirteenDispatchedThreeDelivered ==
  /\ dispatched = MAX_INFLIGHT + MaxFrames
  /\ delivered = MaxFrames
  /\ g_pending_frames = MAX_INFLIGHT
  /\ draws >= 1 /\ reported >= 1 /\ played = 1 /\ ackQueue = <<>>

\* Nothing of the start-up is ahead of its order: the echo call follows init,
\* the audio node follows the echo reply, and the timers, the render chain and
\* the first requestFrame follow the audio node.
StartupInOrder ==
  /\ promise[EchoCall].state # "unissued" => (workerInitSent /\ onready_pc # "idle")
  /\ promise[EchoCall].state = "resolved" => replied[EchoCall] # NoReply
  /\ g_nes_audio_node => promise[EchoCall].state = "resolved"
  /\ (dispatched > 0 \/ timers.scheduler > 0 \/ timers.raf > 0 \/ timers.fps > 0)
       => g_nes_audio_node
  /\ replied[EchoCall] = NoReply =>
       (dispatched = 0 /\ timers = [raf |-> 0, scheduler |-> 0, fps |-> 0])

\* A deliverFrame is handled only where the audio node exists.
DeliveryFindsNode == delivered' = delivered + 1 => g_nes_audio_node

\* C18: no requestFrame is dispatched before the start-up has completed in
\* order (init received, echo reply received, audio sink created); every
\* deliverFrame answering a request is handled where the audio sink exists; and
\* while the echo call is unanswered the scheduler, the render loop and the FPS
\* timer do not start.
DispatchOnlyAfterStartup == []StartupInOrder /\ [][DeliveryFindsNode]_vars

\* The first frame was delivered after a full queue of requests, and its batch
\* went to the audio node.
FirstFrameReachedNode ==
  /\ delivered = 1
  /\ dispatched = MAX_INFLIGHT
  /\ g_pending_frames = MAX_INFLIGHT - 1
  /\ sinkUnplayed = 5000
  /\ g_nes_audio_node

\* The longest batch the producer sends.
Lmax == CHOOSE l \in AudioLens : \A m \in AudioLens : m <= l

\* The counter never passes the last value that opens the gate plus one batch.
BufferedWithinBound == g_audio_samples_buffered <= (THRESHOLD - 1) + Lmax

\* The audio node receives samples only in a step that starts below the threshold.
ForwardBelowThresholdStep ==
  sinkUnplayed' > sinkUnplayed => g_audio_samples_buffered < THRESHOLD

\* C19: samplesBuffered is bounded above: with batches of length at most Lmax
\* and non-negative acknowledgment counts, samplesBuffered <= 8191 + Lmax, and
\* no batch is forwarded to the audio sink while samplesBuffered >= 8192.
SamplesBufferedBounded == []BufferedWithinBound /\ [][ForwardBelowThresholdStep]_vars

\* 300 and 7700 made 8000, the longest batch was still forwarded, and after an
\* acknowledgment the counter is 15300.
LongestBatchForwardedAt8000 ==
  /\ g_audio_samples_buffered = 15300
  /\ sinkUnplayed = 15300
  /\ played = 1 /\ ackQueue = <<>>
  /\ delivered = MaxFrames

\* The outcome of a settled call is the one its first reply gives, and a call
\* without a reply is not settled.
OutcomeIsFirstReply ==
  \A c \in Calls :
    /\ Settled(c) =>
         /\ replied[c] # NoReply
         /\ promise[c] = PortOnMessage([state |-> "pending", value |-> "none"], replied[c])
    /\ replied[c] = NoReply => ~Settled(c)

\* A settled call keeps its outcome in every step, and a pending call is settled
\* only by the step that takes a message off its own channel.
SettleOnceStep ==
  \A c \in Calls :
    /\ Settled(c) => promise'[c] = promise[c]
    /\ (promise[c].state = "pending" /\ promise'[c] # promise[c]) =>
         (port1[c] # <<>> /\ port1'[c] = Tail(port1[c]))

\* C20: an rpc call is settled at most once: after the first reply on its
\* private channel has resolved or rejected it, a further message on the same
\* channel does not change its outcome; and a call whose reply never arrives
\* stays pending, no other event resolves or rejects it.
CallSettledAtMostOnce == []OutcomeIsFirstReply /\ [][SettleOnceStep]_vars

\* The second call was rejected with E1; a later message without an error came in
\* on its channel, was handled, and the call is still rejected with E1.
RejectedCallIgnoredSuccess ==
  /\ extraReplies.call = 2
  /\ ~ToBoolean(extraReplies.data.error)
  /\ port1[2] = <<>>
  /\ promise[2] = [state |-> "rejected", value |-> "E1"]

====
